---- MODULE Spec2Model ----
(***************************************************************************)
(* Model of MarkerVisualizer (display_markerdata.py) and of the            *)
(* BabylonCommunicator it notifies (communicateBabylon.py).                *)
(*                                                                         *)
(* Units.  Time is counted in units of 10 ms, so the 0.1 s throttle of     *)
(* on_add is 10 units.  Positions on the frame axis of the time-series     *)
(* plot are counted in tenths of a frame (Scale), so the pointer position  *)
(* 2.6 is the integer 26 and frame number 3 lies at 30.                    *)
(*                                                                         *)
(* Python indices are kept 0-based; a TLA+ sequence s holds Python's s[i]  *)
(* at s[i + 1].                                                            *)
(***************************************************************************)
EXTENDS Integers, Sequences, FiniteSets

VARIABLES
    marker_name,      \* self.marker_name (config), a string of characters
    use_babylon,      \* self.use_babylon (config)
    endpoint,         \* what the render engine at endpoint_url does during the session
    csv,              \* what pd.read_csv returned to the last load_data
    df,               \* self.df: None or a table [columns, rows]
    shown,            \* plot_marker_graph is inside plt.show(): on_add is connected
    time_stamps,      \* the Frame column captured by the on_add closure
    now,              \* the wall clock, time.time()
    last_hover_time,  \* self.last_hover_time
    fig_3d,           \* self.fig_3d / self.ax_3d exist
    artists,          \* the artists currently on self.ax_3d, in drawing order
    scatter_3d,       \* self.scatter_3d: <<>> (None) or <<artist>>
    red_marker_3d,    \* self.red_marker_3d: <<>> (no attribute) or <<artist>>
    sent,             \* the requests posted to the render engine, oldest first
    ack,              \* what send_message_endpoint returned last, None before
    result,           \* how the last operation ended
    sel,              \* the selection handed to the last on_add, and the index it got
    hist              \* the last hist.keep pointer events, oldest first

vars == <<marker_name, use_babylon, endpoint, csv, df, shown, time_stamps, now,
          last_hover_time, fig_3d, artists, scatter_3d, red_marker_3d, sent, ack,
          result, sel, hist>>


----------------------------------------------------------------------------
(* Bounds of the model *)

\* the first value of the clock: time.time() is far above the throttle window
StartTime == 10
\* the clock stops after this many units past StartTime
MaxTime == 14
\* rows of a raw recording in SpecLoad
MaxRawRows == 2
\* number of frames of a recording in SpecResolve
MaxFrames == 5
\* largest frame number of a recording in SpecResolve
MaxFrameNo == 4

(* Program constants *)

\* on_add: "if current_time - self.last_hover_time < 0.1", in units of 10 ms
THROTTLE == 10
\* update_3d_plot: position_min, position_max
position_min == -1000
position_max == 10000
\* update_3d_plot: extreme_threshold_min, extreme_threshold_max
extreme_threshold_min == -100000
extreme_threshold_max == 100000
\* tenths of a frame per frame number on the frame axis
Scale == 10

----------------------------------------------------------------------------
(* Values *)

None == [isNone |-> TRUE]

\* a cell of a DataFrame: a finite number, NaN (an empty CSV cell), or +/-Infinity
Num(v) == [kind |-> "num", v |-> v]
NaN == [kind |-> "nan", v |-> 0]
Inf == [kind |-> "inf", v |-> 1]
NegInf == [kind |-> "inf", v |-> -1]

\* pandas isna / numpy isfinite / math.isnan, math.isinf
isna(c) == c.kind = "nan"
isinf(c) == c.kind = "inf"
isfinite(c) == c.kind = "num"

\* Python's "sub in s" on strings, strings being sequences of characters
IsSubstr(sub, s) ==
    \E i \in 0..(Len(s) - Len(sub)) : SubSeq(s, i + 1, i + Len(sub)) = sub

Frame == <<"F", "r", "a", "m", "e">>
TPrefix == <<"<", "T", "-">>

\* the positions (1-based) at which the sequence of booleans s holds, in order
RECURSIVE SelectIdx(_, _)
SelectIdx(s, i) ==
    IF i > Len(s) THEN <<>>
    ELSE (IF s[i] THEN <<i>> ELSE <<>>) \o SelectIdx(s, i + 1)

\* [col for col in self.df.columns if name in col], as column positions
ColumnsWith(columns, name) ==
    SelectIdx([j \in 1..Len(columns) |-> IsSubstr(name, columns[j])], 1)

\* position of column Frame ('Frame' in self.df.columns, self.df['Frame'])
FrameCols(columns) ==
    SelectIdx([j \in 1..Len(columns) |-> columns[j] = Frame], 1)

HasFrame(columns) == FrameCols(columns) # <<>>

Range(s) == {s[i] : i \in 1..Len(s)}

\* DataFrame.dropna(how='all')
DropAllEmpty(rows) ==
    LET Keep(r) == \E j \in 1..Len(r) : ~isna(r[j]) IN SelectSeq(rows, Keep)

\* the subset drop left out
DropMissing_Skipped(rows, subset) == rows

\* DataFrame.dropna(subset=...), subset given as column positions
DropMissing(rows, subset) ==
    LET Keep(r) == \A j \in Range(subset) : ~isna(r[j]) IN SelectSeq(rows, Keep)

\* DataFrame.fillna(0)
FillZero(rows) ==
    [i \in 1..Len(rows) |->
        [j \in 1..Len(rows[i]) |-> IF isna(rows[i][j]) THEN Num(0) ELSE rows[i][j]]]

\* the replacement left out: +/-Infinity stays in the table
ReplaceInf_Kept(rows) == rows

\* DataFrame.replace([np.inf, -np.inf], np.nan)
ReplaceInf(rows) ==
    [i \in 1..Len(rows) |->
        [j \in 1..Len(rows[i]) |-> IF isinf(rows[i][j]) THEN NaN ELSE rows[i][j]]]

\* DataFrame.dropna()
DropAnyEmpty(rows) ==
    LET Keep(r) == \A j \in 1..Len(r) : ~isna(r[j]) IN SelectSeq(rows, Keep)

\* the sanitation pipeline of load_data, lines 43-55
Sanitize(raw, name) ==
    LET required == FrameCols(raw.columns) \o ColumnsWith(raw.columns, name)
        s1 == DropAllEmpty(raw.rows)
        s2 == DropMissing(s1, required)
        s3 == FillZero(s2)
        s4 == DropAnyEmpty(ReplaceInf(s3))
    IN  [columns |-> raw.columns, rows |-> s4]

----------------------------------------------------------------------------
(* The 3D view *)

\* the view state of the visualizer as one record
View == [fig_3d |-> fig_3d, artists |-> artists,
         scatter_3d |-> scatter_3d, red_marker_3d |-> red_marker_3d]

\* a scatter drawn for the frame at index frame; pts are the positions drawn
Artist(kind, frame, pts) == [kind |-> kind, frame |-> frame, pts |-> pts]

\* remove() forgotten: the artist stays on the axes
RemoveFirst_Forgotten(s, a) == s

\* Artist.remove(): takes the artist off the axes
RECURSIVE RemoveFirst(_, _)
RemoveFirst(s, a) ==
    IF s = <<>> THEN <<>>
    ELSE IF Head(s) = a THEN Tail(s)
    ELSE <<Head(s)>> \o RemoveFirst(Tail(s), a)

\* a second remove() of the same artist raises
OnAxes(s, a) == \E i \in 1..Len(s) : s[i] = a

\* self.df[marker_columns].values.reshape(-1, n // 3, 3)[frame_index]
FramePositions(d, marker_columns, frame_index) ==
    LET row == d.rows[frame_index + 1] IN
    [m \in 1..(Len(marker_columns) \div 3) |->
        [c \in 1..3 |-> row[marker_columns[3 * (m - 1) + c]]]]

\* np.isfinite(pos).all() / not any(math.isnan(val) or math.isinf(val) for val in pos)
AllFinite(pos) == \A c \in 1..Len(pos) : isfinite(pos[c])

\* np.all((pos >= lo) & (pos <= hi)) for finite lo, hi: NaN compares False,
\* +Infinity fails pos <= hi and -Infinity fails pos >= lo
Within(pos, lo, hi) ==
    \A c \in 1..Len(pos) : isfinite(pos[c]) /\ pos[c].v >= lo /\ pos[c].v <= hi

\* the test with the plausible range left out, only the extreme envelope kept
MarkerPasses_ExtremeOnly(pos) ==
    /\ \A c \in 1..Len(pos) : pos[c].kind = "num"
    /\ \A c \in 1..Len(pos) :
          pos[c].v >= extreme_threshold_min /\ pos[c].v <= extreme_threshold_max

\* the test a marker passes to enter valid_marker_positions, lines 200-215
MarkerPasses(pos) ==
    /\ AllFinite(pos)
    /\ Within(pos, position_min, position_max)
    /\ Within(pos, extreme_threshold_min, extreme_threshold_max)

\* valid_marker_positions after the loop of lines 200-215
ValidMarkers(frame_positions) == SelectSeq(frame_positions, MarkerPasses)

\* marker_columns.index(col), 0-based; the caller has checked that col is there
IndexOf(s, x) == (CHOOSE i \in 1..Len(s) : s[i] = x /\ \A j \in 1..(i - 1) : s[j] # x) - 1

\* lines 230-256 of update_3d_plot: replace the general set and the highlight.
\* An exception (remove() of an artist that is no longer on the axes) leaves
\* the view as the statements before it made it.
Redraw(v, frame_index, valid, selected) ==
    LET general == Artist("general", frame_index, valid)
        red == Artist("red", frame_index, <<selected>>)
        a1 == IF v.scatter_3d # <<>> THEN RemoveFirst(v.artists, v.scatter_3d[1])
              ELSE v.artists
        v1 == [v EXCEPT !.artists = a1]
        v2 == [v1 EXCEPT !.artists = Append(a1, general), !.scatter_3d = <<general>>]
        a3 == IF v.red_marker_3d # <<>> THEN RemoveFirst(v2.artists, v.red_marker_3d[1])
              ELSE v2.artists
        v3 == [v2 EXCEPT !.artists = a3]
        v4 == [v3 EXCEPT !.artists = Append(a3, red), !.red_marker_3d = <<red>>]
    IN  IF v.scatter_3d # <<>> /\ ~OnAxes(v.artists, v.scatter_3d[1])
            THEN [view |-> v, outcome |-> "error"]
        ELSE IF \E m \in 1..Len(valid) : ~AllFinite(valid[m])
            THEN [view |-> v1, outcome |-> "nonfinite_valid"]
        ELSE IF v.red_marker_3d # <<>> /\ ~OnAxes(v2.artists, v.red_marker_3d[1])
            THEN [view |-> v2, outcome |-> "error"]
        ELSE IF AllFinite(selected)
            THEN [view |-> v4, outcome |-> "drawn"]
        ELSE [view |-> v3, outcome |-> "drawn"]

\* a skip that clears the scene instead of leaving it
Skip_Cleared(v, outcome) ==
    [view |-> [v EXCEPT !.artists = <<>>, !.scatter_3d = <<>>, !.red_marker_3d = <<>>],
     outcome |-> outcome]

\* an early return of update_3d_plot, or its except clause: the view stays as
\* the statements before it made it
Skip(v, outcome) == [view |-> v, outcome |-> outcome]

\* update_3d_plot(frame_index) on table d and view v: the new view and how it ended
Update3D(d, name, v, frame_index) ==
    IF d = None THEN Skip(v, "error")
    ELSE IF frame_index < 0 \/ frame_index >= Len(d.rows)
        THEN Skip(v, "index_out_of_bounds")
    ELSE
    LET v0 == [v EXCEPT !.fig_3d = TRUE]
        marker_columns == ColumnsWith(d.columns, TPrefix)
    IN
    IF Len(marker_columns) % 3 # 0 THEN Skip(v0, "bad_structure")
    ELSE IF Len(marker_columns) = 0 THEN Skip(v0, "error")
    ELSE
    LET frame_positions == FramePositions(d, marker_columns, frame_index)
        valid == ValidMarkers(frame_positions)
        marker_columns_selected == ColumnsWith(d.columns, name)
    IN
    IF \E m \in 1..Len(frame_positions) : ~AllFinite(frame_positions[m])
        THEN Skip(v0, "invalid_frame")
    ELSE IF valid = <<>> THEN Skip(v0, "no_valid_markers")
    ELSE IF Len(marker_columns_selected) < 3
        THEN Skip(v0, "incomplete_selected")
    ELSE IF marker_columns_selected[1] \notin Range(marker_columns)
        THEN Skip(v0, "error")
    ELSE
    LET selected_marker_idx == IndexOf(marker_columns, marker_columns_selected[1]) \div 3
    IN  Redraw(v0, frame_index, valid, frame_positions[selected_marker_idx + 1])

----------------------------------------------------------------------------
(* Resolving a pointer position to a frame index, on_add lines 102-111 *)

Abs(n) == IF n < 0 THEN -n ELSE n

RECURSIVE MinOf(_)
MinOf(s) == IF Len(s) = 1 THEN s[1]
            ELSE LET m == MinOf(Tail(s)) IN IF s[1] <= m THEN s[1] ELSE m

RECURSIVE MaxOf(_)
MaxOf(s) == IF Len(s) = 1 THEN s[1]
            ELSE LET m == MaxOf(Tail(s)) IN IF s[1] >= m THEN s[1] ELSE m

\* the bounds test with the upper bound forgotten
OutOfBounds_LowerOnly(ts, x) == x < MinOf(ts) * Scale

\* sel.target[0] < min(time_stamps) or sel.target[0] > max(time_stamps)
OutOfBounds(ts, x) == x < MinOf(ts) * Scale \/ x > MaxOf(ts) * Scale

\* the differences with np.abs forgotten
AbsDiff_Signed(ts, x) == [i \in 1..Len(ts) |-> ts[i] * Scale - x]

\* np.abs(time_stamps - sel.target[0])
AbsDiff(ts, x) == [i \in 1..Len(ts) |-> Abs(ts[i] * Scale - x)]

\* the scan with a later element replacing the best also when it is equal
RECURSIVE ArgMinScan_Last(_, _, _)
ArgMinScan_Last(s, i, best) ==
    IF i > Len(s) THEN best
    ELSE ArgMinScan_Last(s, i + 1, IF s[i] <= s[best] THEN i ELSE best)

\* np.argmin: scan from the left, a later element replaces the best only if
\* it is strictly smaller; best is the 1-based position of the best so far
RECURSIVE ArgMinScan(_, _, _)
ArgMinScan(s, i, best) ==
    IF i > Len(s) THEN best
    ELSE ArgMinScan(s, i + 1, IF s[i] < s[best] THEN i ELSE best)

\* int(np.argmin(s)), 0-based
ArgMin(s) == ArgMinScan(s, 2, 1) - 1

\* index = int(np.argmin(np.abs(time_stamps - sel.target[0])))
ResolveIndex(ts, x) == ArgMin(AbsDiff(ts, x))

----------------------------------------------------------------------------
(* The notification, communicateBabylon.py *)

\* percentage_frame_sender(frame / count * 100) posts unless
\* "percentage < 0 or percentage > 100"
PercentageValid(frame, count) == ~(frame * 100 < 0 \/ frame * 100 > 100 * count)

\* the request made from the index instead of the frame number
Request_ByIndex(ts, index, t) == [t |-> t, frame |-> index, count |-> Len(ts)]

\* the request posted for the frame at index of ts, at time t
Request(ts, index, t) == [t |-> t, frame |-> ts[index + 1], count |-> Len(ts)]

\* whether lines 113-115 of on_add get as far as requests.post
Posts(enabled, ts, index) == enabled /\ PercentageValid(ts[index + 1], Len(ts))

\* lines 113-115 of on_add
Notify(log, enabled, ts, index, t) ==
    IF Posts(enabled, ts, index)
    THEN Append(log, Request(ts, index, t))
    ELSE log

\* the render engine answers with a JSON body, refuses the connection, does not
\* answer in time, answers with an HTTP error status, or answers 200 with a
\* body that is not JSON
Endpoints == {"up", "refused", "timeout", "http_error", "bad_body"}

\* response.json() of an endpoint that is up: the body it sent
Reply == [status |-> "ok", message |-> "received"]

\* {"status": "error", "message": str(e)}
ErrorAck(e) == [status |-> "error", message |-> e]

\* a call that returned a, and a call that raised
Returned(a) == [raised |-> FALSE, ack |-> a]
Raised == [raised |-> TRUE, ack |-> None]

\* send_message_endpoint with the except clause left out: every failure raises
send_message_endpoint_Uncaught(e) ==
    IF e = "up" THEN {Returned(Reply)} ELSE {Raised}

\* send_message_endpoint(message) against an endpoint in state e: the ways the
\* call can end.  ConnectionError, Timeout and HTTPError are RequestExceptions
\* and are caught.  The error response.json() raises for a body that is not
\* JSON is a RequestException in requests 2.27 and later and a plain
\* ValueError before, which the except clause does not catch.
send_message_endpoint(e) ==
    IF e = "up" THEN {Returned(Reply)}
    ELSE IF e = "bad_body" THEN {Returned(ErrorAck(e)), Raised}
    ELSE {Returned(ErrorAck(e))}

----------------------------------------------------------------------------
(* Recordings: what pd.read_csv returns for the file of the configuration *)

\* the header of a translation column of a marker, such as "<T-M>X"
T(marker, axis) == <<"<", "T", "-", marker, ">", axis>>
\* the header of a rotation column, such as "<R-M>X"
R(marker, axis) == <<"<", "R", "-", marker, ">", axis>>

ColsAM == <<Frame, T("A", "X"), T("A", "Y"), T("A", "Z"),
                   T("M", "X"), T("M", "Y"), T("M", "Z")>>
ColsNoFrame == <<T("A", "X"), T("A", "Y"), T("A", "Z"),
                 T("M", "X"), T("M", "Y"), T("M", "Z")>>
ColsOdd == <<Frame, T("A", "X"), T("A", "Y"),
                    T("M", "X"), T("M", "Y"), T("M", "Z")>>
ColsRot == <<Frame, R("M", "X"), R("M", "Y"), R("M", "Z"),
                    T("A", "X"), T("A", "Y"), T("A", "Z")>>

P(x, y, z) == <<Num(x), Num(y), Num(z)>>

\* frames 0..2 and two frames the loader drops; marker A leaves the plausible
\* range in frame 1, no marker is valid in frame 2
RecMixed ==
    [columns |-> ColsAM,
     rows |-> << <<Num(0)>> \o P(1, 2, 3) \o P(4, 5, 6),
                 <<Num(1)>> \o P(20000, 0, 0) \o P(4, 5, 7),
                 <<NaN>> \o P(1, 2, 3) \o P(4, 5, 6),
                 <<Num(2)>> \o P(-2000, 0, 0) \o P(200000, 0, 0),
                 <<Num(3)>> \o P(1, 2, 3) \o <<Num(4), Inf, Num(6)>> >>]

\* frame numbers 1, 2, 4; the selected marker M is out of range in frame 2,
\* an empty cell of A becomes 0
RecGaps ==
    [columns |-> ColsAM,
     rows |-> << <<Num(1)>> \o <<Num(1), NaN, Num(3)>> \o P(4, 5, 6),
                 <<Num(2)>> \o P(1, 2, 4) \o P(4, 5, 20000),
                 <<Num(4)>> \o P(1, 2, 5) \o P(4, 5, 8) >>]

RecNoFrame ==
    [columns |-> ColsNoFrame,
     rows |-> << P(1, 2, 3) \o P(4, 5, 6),
                 <<Num(1), NaN, Num(3)>> \o P(4, 5, 6) >>]

RecOdd ==
    [columns |-> ColsOdd,
     rows |-> << <<Num(0), Num(1), Num(2)>> \o P(4, 5, 6),
                 <<Num(1), Num(1), Num(2)>> \o P(4, 5, 7) >>]

RecRot ==
    [columns |-> ColsRot,
     rows |-> << <<Num(0)>> \o P(0, 90, 0) \o P(1, 2, 3),
                 <<Num(1)>> \o P(0, 90, 0) \o P(1, 2, 4) >>]

\* the recordings of Spec and SpecBurst
Recordings == {RecMixed, RecNoFrame}

\* the recordings of SpecView
ViewRecordings == {RecMixed, RecGaps, RecNoFrame, RecOdd, RecRot}

MarkerNames == {<<"M">>, <<"Z">>}

\* pointer positions on the frame axis, in tenths of a frame
Targets == {-5, 5, 12, 16, 25}

\* a selection of mplcursors: the line hovered and the position on it
Sel(artist, finite, x) == [artist |-> artist, finite |-> finite, x |-> x]

SelectionsAt(targets) ==
    {Sel("X Position", TRUE, x) : x \in targets}
        \cup {Sel("None", TRUE, 0), Sel("X Position", FALSE, 0)}

Selections == SelectionsAt(Targets)

\* how far the clock moves between two looks at it: 30 ms, 70 ms or 110 ms
TickSteps == {3, 7, 11}

----------------------------------------------------------------------------
(* Operations *)

\* the state after MarkerVisualizer(config_loc); keep is the number of pointer
\* events hist remembers, endpoints the states the render engine may be in
InitWith(names, flags, keep, endpoints) ==
    /\ marker_name \in names
    /\ use_babylon \in flags
    /\ endpoint \in endpoints
    /\ csv = None
    /\ df = None
    /\ shown = FALSE
    /\ time_stamps = <<>>
    /\ now = StartTime
    /\ last_hover_time = 0
    /\ fig_3d = FALSE
    /\ artists = <<>>
    /\ scatter_3d = <<>>
    /\ red_marker_3d = <<>>
    /\ sent = <<>>
    /\ ack = None
    /\ result = "constructed"
    /\ sel = [artist |-> "None", finite |-> TRUE, x |-> 0, index |-> -1]
    /\ hist = [keep |-> keep, events |-> <<>>]

Init == InitWith(MarkerNames, BOOLEAN, 0, {"up"})

\* time passes
Tick(d) ==
    /\ now + d <= StartTime + MaxTime
    /\ now' = now + d
    /\ UNCHANGED <<marker_name, use_babylon, endpoint, csv, df, shown, time_stamps,
                   last_hover_time, fig_3d, artists, scatter_3d, red_marker_3d,
                   sent, ack, result, sel, hist>>

\* load_data(), raw being what pd.read_csv returns.  plt.show() blocks the
\* caller, so no load happens while the time-series plot is shown.
load_data(raw) ==
    /\ ~shown
    /\ csv' = raw
    /\ IF ~HasFrame(raw.columns)
       THEN /\ df' = raw
            /\ result' = "MissingColumn"
       ELSE /\ df' = Sanitize(raw, marker_name)
            /\ result' = "loaded"
    /\ UNCHANGED <<marker_name, use_babylon, endpoint, shown, time_stamps, now,
                   last_hover_time, fig_3d, artists, scatter_3d, red_marker_3d,
                   sent, ack, sel, hist>>

\* self.df['Frame'] as captured by the closure on_add
FrameColumn(d) ==
    LET f == FrameCols(d.columns)[1] IN [i \in 1..Len(d.rows) |-> d.rows[i][f].v]

\* plot_marker_graph() up to plt.show(): draws the three lines and connects on_add
plot_marker_graph ==
    /\ ~shown
    /\ IF df = None
       THEN result' = "NotLoaded" /\ UNCHANGED <<shown, time_stamps>>
       ELSE IF Len(ColumnsWith(df.columns, marker_name)) # 3
       THEN result' = "BadMarker" /\ UNCHANGED <<shown, time_stamps>>
       ELSE IF ~HasFrame(df.columns)
       THEN result' = "KeyError" /\ UNCHANGED <<shown, time_stamps>>
       ELSE /\ time_stamps' = FrameColumn(df)
            /\ shown' = TRUE
            /\ result' = "plotted"
    /\ UNCHANGED <<marker_name, use_babylon, endpoint, csv, df, now, last_hover_time,
                   fig_3d, artists, scatter_3d, red_marker_3d, sent, ack, sel, hist>>

\* the windows are closed: plt.show() returns and on_add is no longer called
close_plot ==
    /\ shown
    /\ shown' = FALSE
    /\ time_stamps' = <<>>
    /\ result' = "closed"
    /\ UNCHANGED <<marker_name, use_babylon, endpoint, csv, df, now, last_hover_time,
                   fig_3d, artists, scatter_3d, red_marker_3d, sent, ack, sel, hist>>

\* a direct call of update_3d_plot(frame_index)
update_3d_plot(frame_index) ==
    /\ ~shown
    /\ LET u == Update3D(df, marker_name, View, frame_index) IN
        /\ fig_3d' = u.view.fig_3d
        /\ artists' = u.view.artists
        /\ scatter_3d' = u.view.scatter_3d
        /\ red_marker_3d' = u.view.red_marker_3d
        /\ result' = u.outcome
    /\ sel' = [artist |-> "None", finite |-> TRUE, x |-> 0, index |-> frame_index]
    /\ UNCHANGED <<marker_name, use_babylon, endpoint, csv, df, shown, time_stamps,
                   now, last_hover_time, sent, ack, hist>>

\* hist keeps the last h.keep pointer events
Remember(h, e) ==
    IF h.keep = 0 THEN h
    ELSE IF Len(h.events) < h.keep THEN [h EXCEPT !.events = Append(h.events, e)]
    ELSE [h EXCEPT !.events = Append(Tail(h.events), e)]

\* a pointer event: when it came, whether it passed the throttle, whether its
\* selection is one on_add resolves (a line, a finite target within the frame
\* range), and the index it was resolved to
Event(t, passed, inb, index) == [t |-> t, passed |-> passed, inb |-> inb, index |-> index]

\* the selection of the last pointer event and the index on_add resolved it to
Selected(s, index) ==
    [artist |-> s.artist, finite |-> s.finite, x |-> s.x, index |-> index]

\* the throttle test with the window taken in the wrong unit (10 ms)
Throttled_WrongUnit(current_time, last) == current_time - last < THROTTLE \div 10

\* the throttle test with a window twice as long
Throttled_TwiceAsLong(current_time, last) == current_time - last < 2 * THROTTLE

\* the throttle test of on_add, lines 86-88
Throttled(current_time, last) == current_time - last < THROTTLE

\* the checks of lines 95-105 that end on_add before an index is resolved
Rejected(s, ts) ==
    IF s.artist = "None" THEN "no_artist"
    ELSE IF ~s.finite THEN "invalid_target"
    ELSE IF ts = <<>> THEN "empty_sequence"
    ELSE IF OutOfBounds(ts, s.x) THEN "out_of_bounds"
    ELSE "no"

\* on_add(sel): the hover callback of the time-series plot.  An exception
\* raised by the notification of line 115 leaves the try block before
\* update_3d_plot is called and is printed by the except clause of line 140.
on_add(s) ==
    /\ shown
    /\ LET current_time == now IN
       IF Throttled(current_time, last_hover_time)
       THEN /\ result' = "throttled"
            /\ sel' = Selected(s, -1)
            /\ hist' = Remember(hist, Event(current_time, FALSE,
                                               Rejected(s, time_stamps) = "no", -1))
            /\ UNCHANGED <<last_hover_time, fig_3d, artists, scatter_3d,
                           red_marker_3d, sent, ack>>
       ELSE
       /\ last_hover_time' = current_time
       /\ IF Rejected(s, time_stamps) # "no"
          THEN /\ result' = Rejected(s, time_stamps)
               /\ sel' = Selected(s, -1)
               /\ hist' = Remember(hist, Event(current_time, TRUE, FALSE, -1))
               /\ UNCHANGED <<fig_3d, artists, scatter_3d, red_marker_3d, sent, ack>>
          ELSE
          LET index == ResolveIndex(time_stamps, s.x)
              u == Update3D(df, marker_name, View, index)
          IN  /\ sent' = Notify(sent, use_babylon, time_stamps, index, current_time)
              /\ sel' = Selected(s, index)
              /\ hist' = Remember(hist, Event(current_time, TRUE, TRUE, index))
              /\ \E o \in IF Posts(use_babylon, time_stamps, index)
                           THEN send_message_endpoint(endpoint)
                           ELSE {Returned(ack)} :
                    IF o.raised
                    THEN /\ result' = "notification_raised"
                         /\ UNCHANGED <<fig_3d, artists, scatter_3d, red_marker_3d, ack>>
                    ELSE /\ ack' = o.ack
                         /\ fig_3d' = u.view.fig_3d
                         /\ artists' = u.view.artists
                         /\ scatter_3d' = u.view.scatter_3d
                         /\ red_marker_3d' = u.view.red_marker_3d
                         /\ result' = u.outcome
    /\ UNCHANGED <<marker_name, use_babylon, endpoint, csv, df, shown, time_stamps, now>>

----------------------------------------------------------------------------
(* Spec: a session of the visualizer, any configuration *)

Next ==
    \/ \E d \in TickSteps : Tick(d)
    \/ \E raw \in Recordings : load_data(raw)
    \/ plot_marker_graph
    \/ close_plot
    \/ \E i \in -1..3 : update_3d_plot(i)
    \/ \E s \in Selections : on_add(s)

Spec == Init /\ [][Next]_vars

----------------------------------------------------------------------------
(* SpecBurst: one session with notifications on, the pointer events remembered *)

InitBurst == InitWith({<<"M">>}, {TRUE}, 3, {"up"})

NextBurst ==
    \/ \E d \in TickSteps : Tick(d)
    \/ load_data(RecMixed)
    \/ plot_marker_graph
    \/ \E s \in Selections : on_add(s)

SpecBurst == InitBurst /\ [][NextBurst]_vars

----------------------------------------------------------------------------
(* SpecView: the 3D view over recordings of every structure, notifications off,
   the last two pointer events remembered *)

InitView == InitWith(MarkerNames, {FALSE}, 2, {"up"})

NextView ==
    \/ Tick(THROTTLE)
    \/ \E raw \in ViewRecordings : load_data(raw)
    \/ plot_marker_graph
    \/ close_plot
    \/ \E i \in -1..3 : update_3d_plot(i)
    \/ \E s \in Selections : on_add(s)

SpecView == InitView /\ [][NextView]_vars

----------------------------------------------------------------------------
(* SpecLoad: the first load_data of a session, over raw recordings *)

\* the cells a raw recording may hold in row i
RawCells(i) == {Num(i), NaN, Inf, NegInf}

\* the rows of n cells with at most one cell that is not a plain number, those
\* with one empty and one infinite cell, and the row whose cells are all empty
RawRows(n, i) ==
    {r \in [1..n -> RawCells(i)] :
        \/ Cardinality({j \in 1..n : r[j] # Num(i)}) <= 1
        \/ /\ Cardinality({j \in 1..n : r[j] # Num(i)}) = 2
           /\ Cardinality({j \in 1..n : r[j] = NaN}) = 1
           /\ Cardinality({j \in 1..n : r[j] \in {Inf, NegInf}}) = 1
        \/ \A j \in 1..n : r[j] = NaN}

RECURSIVE RawRowSeqs(_, _)
RawRowSeqs(n, k) ==
    IF k = 0 THEN {<<>>}
    ELSE RawRowSeqs(n, k - 1)
            \cup {Append(rs, r) : rs \in {q \in RawRowSeqs(n, k - 1) : Len(q) = k - 1},
                                  r \in RawRows(n, k)}

ColsLoad == <<Frame, T("M", "X"), T("M", "Y"), T("M", "Z"), T("A", "X")>>
ColsLoadNoFrame == <<T("M", "X"), T("M", "Y"), T("M", "Z"), T("A", "X")>>

\* frame numbers 0..3, an Infinity in the Y column of M at frame 2
RecInfY ==
    [columns |-> ColsAM,
     rows |-> << <<Num(0)>> \o P(1, 2, 3) \o P(4, 5, 6),
                 <<Num(1)>> \o P(1, 2, 4) \o P(4, 5, 7),
                 <<Num(2)>> \o P(1, 2, 5) \o <<Num(4), Inf, Num(8)>>,
                 <<Num(3)>> \o P(1, 2, 6) \o P(4, 5, 9) >>]

\* the raw recordings of up to k rows
RawRecordings(k) ==
    {[columns |-> ColsLoad, rows |-> rs] : rs \in RawRowSeqs(5, k)}
        \cup {[columns |-> ColsLoadNoFrame, rows |-> rs] : rs \in RawRowSeqs(4, 1)}
        \cup {RecInfY}

InitLoad == InitWith(MarkerNames, {FALSE}, 0, {"up"})

NextLoad == df = None /\ \E raw \in RawRecordings(MaxRawRows) : load_data(raw)

SpecLoad == InitLoad /\ [][NextLoad]_vars

----------------------------------------------------------------------------
(* SpecResolve: the first pointer event on a recording of clean frames *)

\* the sequences of n frame numbers
RECURSIVE FrameLists(_)
FrameLists(n) ==
    IF n = 0 THEN {<<>>}
    ELSE {Append(fs, f) : fs \in FrameLists(n - 1), f \in 0..MaxFrameNo}

NonDecreasing(fs) == \A i \in 1..(Len(fs) - 1) : fs[i] <= fs[i + 1]

FrameRecording(fs) ==
    [columns |-> ColsAM,
     rows |-> [i \in 1..Len(fs) |-> <<Num(fs[i])>> \o P(1, 2, i) \o P(4, 5, i)]]

\* the recordings of 1 to k frames whose frame numbers do not decrease
FrameRecordings(k) ==
    {FrameRecording(fs) :
        fs \in {gs \in UNION {FrameLists(n) : n \in 1..k} : NonDecreasing(gs)}}

\* every tenth of a frame from one frame below the first possible frame number
\* to one frame above the last
ResolveTargets == (-Scale)..((MaxFrameNo + 1) * Scale)

InitResolve == InitWith({<<"M">>}, {TRUE}, 0, {"up"})

NextResolve ==
    \/ df = None /\ \E raw \in FrameRecordings(MaxFrames) : load_data(raw)
    \/ result = "loaded" /\ plot_marker_graph
    \/ result = "plotted" /\ \E s \in SelectionsAt(ResolveTargets) : on_add(s)

SpecResolve == InitResolve /\ [][NextResolve]_vars

----------------------------------------------------------------------------
(* SpecNotify: sessions with notifications on, the render engine in any state *)

\* the recordings of SpecNotify: frame numbers 0, 1, 2 and frame numbers 1, 2, 4
NotifyRecordings == {RecMixed, RecGaps}

\* the pointer positions of SpecNotify: those of Spec and the position of frame 4
NotifyTargets == Targets \cup {4 * Scale}

InitNotify == InitWith({<<"M">>}, {TRUE}, 0, Endpoints)

NextNotify ==
    \/ \E d \in TickSteps : Tick(d)
    \/ \E raw \in NotifyRecordings : load_data(raw)
    \/ plot_marker_graph
    \/ close_plot
    \/ \E s \in SelectionsAt(NotifyTargets) : on_add(s)

SpecNotify == InitNotify /\ [][NextNotify]_vars

----------------------------------------------------------------------------
(* Properties *)

\* every payload the table can produce is one percentage_frame_sender posts
AllPayloadsValid(ts) == \A i \in 1..Len(ts) : ts[i] * 100 >= 0 /\ ts[i] * 100 <= 100 * Len(ts)

\* the last three pointer events came at t, t + 30 ms and t + 140 ms, each on a
\* line at a finite position within the frame range, the first one not throttled
BurstCase ==
    LET e == hist.events IN
    /\ shown /\ use_babylon /\ Len(e) = 3
    /\ e[2].t = e[1].t + 3 /\ e[3].t = e[1].t + 14
    /\ e[1].passed /\ e[1].inb /\ e[2].inb /\ e[3].inb
    /\ AllPayloadsValid(time_stamps)

\* the requests posted at or after time t
SentSince(t) == {i \in 1..Len(sent) : sent[i].t >= t}

\* exactly two requests for the burst: one for the event at t, one for t + 140 ms
BurstForwarded ==
    LET e == hist.events
        n == Len(sent)
    IN  BurstCase =>
            /\ ~e[2].passed /\ e[3].passed
            /\ Cardinality(SentSince(e[1].t)) = 2
            /\ sent[n - 1] = [t |-> e[1].t, frame |-> time_stamps[e[1].index + 1],
                              count |-> Len(time_stamps)]
            /\ sent[n] = [t |-> e[3].t, frame |-> time_stamps[e[3].index + 1],
                          count |-> Len(time_stamps)]

\* no two requests are less than 100 ms apart
SentSpaced ==
    \A i, j \in 1..Len(sent) : i < j => sent[j].t - sent[i].t >= 10

\* a request is posted only inside the pointer event it is for, at the time of
\* that event and for the frame it resolves to; an event that comes less than
\* 100 ms after the last one that passed posts nothing
SentInPlace ==
    /\ sent' # sent =>
        \E s \in Selections :
            /\ on_add(s)
            /\ now - last_hover_time >= 10
            /\ sent' = Append(sent, [t |-> now,
                                     frame |-> time_stamps[sel'.index + 1],
                                     count |-> Len(time_stamps)])
    /\ last_hover_time' # last_hover_time =>
        now - last_hover_time >= 10 /\ last_hover_time' = now

\* C1: of pointer events at t, t + 30 ms and t + 140 ms exactly the first and
\* the third are forwarded; no two forwarded notifications are less than
\* 100 ms apart; a throttled event is dropped, its notification is never sent
C1_Throttle == [](BurstForwarded /\ SentSpaced) /\ [][SentInPlace]_vars

C1_Witness == BurstCase /\ Len(sent) = 2 /\ hist.events[1].index # hist.events[3].index


\* the frame numbers of the loaded table
Frames == FrameColumn(df)

\* position x (tenths of a frame) lies below every frame number, or above every one
Outside(fs, x) == (\A i \in 1..Len(fs) : x < 10 * fs[i]) \/ (\A i \in 1..Len(fs) : x > 10 * fs[i])

\* C2: a pointer event at a position below the minimum or above the maximum
\* frame number of the loaded table produces no frame index, leaves the 3D
\* view as it was and sends no notification
C2_OutOfBoundsIgnored ==
    [][\A s \in Selections :
          (on_add(s) /\ s.finite /\ Outside(Frames, s.x)) =>
              /\ sel'.index = -1
              /\ UNCHANGED <<fig_3d, artists, scatter_3d, red_marker_3d, sent>>]_vars

C2_Witness ==
    /\ result = "out_of_bounds" /\ Outside(Frames, sel.x)
    /\ scatter_3d # <<>> /\ red_marker_3d # <<>> /\ sent # <<>>

\* the pointer event just handled was the first of the session, on a line, at a
\* finite position within the frame range
ResolvedCase ==
    /\ shown /\ result # "plotted"
    /\ sel.artist # "None" /\ sel.finite
    /\ ~Outside(time_stamps, sel.x)

Dist(fs, i, x) == IF 10 * fs[i + 1] >= x THEN 10 * fs[i + 1] - x ELSE x - 10 * fs[i + 1]

\* C3: a position within the frame range resolves to an index of the frame
\* sequence whose frame number is nearest to it, the lowest such index when
\* several are equally near; 2.6 over the frame numbers 0..4 resolves to index 3
C3_Nearest ==
    ResolvedCase =>
        /\ sel.index >= 0 /\ sel.index < Len(time_stamps)
        /\ \A j \in 0..(Len(time_stamps) - 1) :
              /\ Dist(time_stamps, sel.index, sel.x) <= Dist(time_stamps, j, sel.x)
              /\ j < sel.index =>
                    Dist(time_stamps, sel.index, sel.x) < Dist(time_stamps, j, sel.x)
        /\ (time_stamps = <<0, 1, 2, 3, 4>> /\ sel.x = 26) => sel.index = 3

C3_Witness ==
    /\ ResolvedCase /\ time_stamps = <<0, 1, 1, 2, 2>> /\ sel.x = 15 /\ sel.index = 1


\* a raw row the table keeps: a value in the frame-number column and in every
\* column of the selected marker, and no +/-Infinity in any column
KeptRow(raw, name, r) ==
    /\ \A j \in 1..Len(raw.columns) : raw.columns[j] = Frame => r[j].kind # "nan"
    /\ \A j \in 1..Len(raw.columns) : IsSubstr(name, raw.columns[j]) => r[j].kind # "nan"
    /\ \A j \in 1..Len(r) : r[j].kind # "inf"

\* the kept rows in recording order, their empty cells replaced by 0
RECURSIVE KeptRows(_, _, _)
KeptRows(raw, name, i) ==
    IF i > Len(raw.rows) THEN <<>>
    ELSE LET r == raw.rows[i] IN
         (IF KeptRow(raw, name, r)
          THEN << [j \in 1..Len(r) |-> IF r[j].kind = "nan" THEN Num(0) ELSE r[j]] >>
          ELSE <<>>) \o KeptRows(raw, name, i + 1)

\* C4: the loaded table holds exactly the raw rows, in recording order, that
\* have a frame number and every value of the selected marker and hold no
\* +/-Infinity, with every other empty cell replaced by 0; frame numbers 0..3
\* with an Infinity in the selected marker's Y at frame 2 load as 3 frames
C4_Sanitized ==
    result = "loaded" =>
        /\ df.columns = csv.columns
        /\ df.rows = KeptRows(csv, marker_name, 1)
        /\ (csv = RecInfY /\ marker_name = <<"M">>) => Len(df.rows) = 3

C4_Witness ==
    /\ result = "loaded" /\ Len(csv.rows) = 2 /\ Len(df.rows) = 1
    /\ \E j \in 1..Len(csv.rows[2]) : isna(csv.rows[2][j])
    /\ \E j \in 1..Len(csv.rows[1]) : isinf(csv.rows[1][j])
    /\ df.rows[1] # csv.rows[2]
    /\ df.rows[1][1] = csv.rows[2][1]


\* how a view update can end
UpdateOutcomes ==
    {"index_out_of_bounds", "bad_structure", "invalid_frame", "no_valid_markers",
     "incomplete_selected", "nonfinite_valid", "error", "drawn"}

\* the markers of the table's frame at index i, three columns each
MarkersOf(d, i) ==
    LET cols == ColumnsWith(d.columns, TPrefix) IN
    [m \in 1..(Len(cols) \div 3) |-> [c \in 1..3 |-> d.rows[i + 1][cols[3 * (m - 1) + c]]]]

\* all three components within the plausible range and the extreme envelope
InVolume(pos) ==
    \A c \in 1..3 :
        /\ pos[c].kind = "num"
        /\ pos[c].v >= -1000 /\ pos[c].v <= 10000
        /\ pos[c].v >= -100000 /\ pos[c].v <= 100000

\* the last operation was a view update for a frame of the table whose marker
\* group is whole, whose values are all finite and whose selected marker is a
\* marker of the group
FiniteFrameCase ==
    /\ result \in UpdateOutcomes /\ df # None
    /\ sel.index >= 0 /\ sel.index < Len(df.rows)
    /\ LET cols == ColumnsWith(df.columns, TPrefix)
           selected == ColumnsWith(df.columns, marker_name)
       IN  /\ Len(cols) > 0 /\ Len(cols) % 3 = 0
           /\ Len(selected) >= 3 /\ selected[1] \in Range(cols)
    /\ \A m \in 1..Len(MarkersOf(df, sel.index)) : AllFinite(MarkersOf(df, sel.index)[m])

\* C5: the general marker set drawn for a frame of finite values is exactly
\* the frame's markers whose three components lie within [-1000, 10000] and
\* within [-1e5, 1e5]; a marker outside the plausible range is left out while
\* the other markers of the frame are drawn
C5_GeneralSet ==
    /\ result = "drawn" =>
          scatter_3d = <<[kind |-> "general", frame |-> sel.index,
                          pts |-> SelectSeq(MarkersOf(df, sel.index), InVolume)]>>
    /\ (FiniteFrameCase /\ \E m \in 1..Len(MarkersOf(df, sel.index)) :
                              InVolume(MarkersOf(df, sel.index)[m]))
          => result = "drawn"

C5_Witness ==
    /\ result = "drawn" /\ FiniteFrameCase
    /\ MarkersOf(df, sel.index) = <<P(20000, 0, 0), P(4, 5, 7)>>
    /\ scatter_3d[1].pts = <<P(4, 5, 7)>>

\* C6: a view update that is skipped because the frame index is out of range,
\* the marker-group column count is no multiple of 3 or no marker of the frame
\* is valid leaves the general marker set and the highlighted marker as drawn
C6_SkipKeepsView ==
    [][result' \in {"index_out_of_bounds", "bad_structure", "no_valid_markers"}
          => UNCHANGED <<artists, scatter_3d, red_marker_3d>>]_vars

C6_Witness ==
    /\ result = "no_valid_markers" /\ sel.index = 2
    /\ scatter_3d # <<>> /\ red_marker_3d # <<>> /\ scatter_3d[1].frame # 2

\* the scene holds the current general set and the current highlight, nothing else
OneOfEach ==
    /\ artists = scatter_3d \o red_marker_3d
    /\ scatter_3d # <<>> => scatter_3d[1].kind = "general"
    /\ red_marker_3d # <<>> =>
          /\ scatter_3d # <<>>
          /\ red_marker_3d[1].kind = "red"
          /\ red_marker_3d[1].frame = scatter_3d[1].frame
    /\ result = "drawn" => scatter_3d # <<>> /\ scatter_3d[1].frame = sel.index

\* drawing the frame that is drawn already changes nothing
Reissue ==
    (result = "drawn" /\ result' = "drawn" /\ sel'.index = sel.index)
        => UNCHANGED <<artists, scatter_3d, red_marker_3d>>

\* C7: the scene holds at most one general marker set and at most one
\* highlighted marker, both of the frame drawn last; an update removes the
\* previous two before drawing, so drawing the same frame again leaves the
\* scene as it is
C7_NoAccumulation == []OneOfEach /\ [][Reissue]_vars

C7_Witness ==
    /\ result = "drawn" /\ Len(hist.events) = 2
    /\ hist.events[1].index = 0 /\ hist.events[2].index = 1
    /\ artists = scatter_3d \o red_marker_3d
    /\ scatter_3d[1].frame = 1 /\ red_marker_3d[1].frame = 1


\* the index of the frame nearest to position x, the lowest one of several
Nearest(fs, x) ==
    CHOOSE i \in 0..(Len(fs) - 1) :
        \A j \in 0..(Len(fs) - 1) :
            /\ Dist(fs, i, x) <= Dist(fs, j, x)
            /\ j < i => Dist(fs, i, x) < Dist(fs, j, x)

\* the frame at index i of table d validates: the marker group is whole, the
\* selected marker is one of its markers, every value of the frame is finite
\* and at least one marker lies within the plausible range
Validates(d, name, i) ==
    /\ d # None /\ i >= 0 /\ i < Len(d.rows)
    /\ LET cols == ColumnsWith(d.columns, TPrefix)
           selected == ColumnsWith(d.columns, name)
       IN  /\ Len(cols) > 0 /\ Len(cols) % 3 = 0
           /\ Len(selected) >= 3 /\ selected[1] \in Range(cols)
    /\ \A m \in 1..Len(MarkersOf(d, i)) : AllFinite(MarkersOf(d, i)[m])
    /\ \E m \in 1..Len(MarkersOf(d, i)) : InVolume(MarkersOf(d, i)[m])

\* a selection on a line, at a finite position within the frame range
InBounds(s) == s.artist # "None" /\ s.finite /\ ~Outside(time_stamps, s.x)

\* the general marker set of the frame at index i
GeneralOf(d, i) ==
    [kind |-> "general", frame |-> i, pts |-> SelectSeq(MarkersOf(d, i), InVolume)]

\* the latest pointer event was within the frame range, on a frame that
\* validates, and came inside the throttle window
LatestDropped ==
    /\ shown /\ result = "throttled" /\ InBounds(sel)
    /\ Validates(df, marker_name, Nearest(time_stamps, sel.x))

\* the frame shown and the frame notified are those of the latest pointer event
LatestShown ==
    /\ scatter_3d = <<GeneralOf(df, Nearest(time_stamps, sel.x))>>
    /\ (use_babylon /\ AllPayloadsValid(time_stamps)) =>
          /\ sent # <<>>
          /\ sent[Len(sent)].frame = time_stamps[Nearest(time_stamps, sel.x) + 1]

\* C8 as claimed: when the latest in-bounds pointer event came inside the
\* throttle window and the window has reopened with no further event, the
\* frame shown and notified is that of the latest event
C8_LatestReflected == (LatestDropped /\ now - last_hover_time >= 10) => LatestShown

\* C8 as amended: a pointer event that comes inside the throttle window is
\* dropped for good; neither it nor the passing of time changes the frame
\* shown, the requests posted or the start of the window
C8_DroppedForGood ==
    [][((now - last_hover_time < 10 /\ \E s \in Selections : on_add(s)) \/ now' # now)
          => UNCHANGED <<fig_3d, artists, scatter_3d, red_marker_3d, sent,
                         last_hover_time>>]_vars

C8_Witness ==
    /\ LatestDropped /\ now - last_hover_time >= 10
    /\ scatter_3d # <<>> /\ scatter_3d[1].frame # Nearest(time_stamps, sel.x)
    /\ sent # <<>> /\ sent[Len(sent)].frame # time_stamps[Nearest(time_stamps, sel.x) + 1]

C10_RejectedNotRetained == [][result' = "MissingColumn" => df' = df]_vars

\* C11 as claimed: a load_data of a recording that has its frame-number column,
\* with a marker name that does not resolve to exactly 3 of its columns, fails
\* and leaves the table of the visualizer as it was
C11_BadMarkerFailsLoad ==
    [][\A raw \in Recordings :
          (load_data(raw) /\ HasFrame(raw.columns)
              /\ Len(ColumnsWith(raw.columns, marker_name)) # 3)
          => (result' # "loaded" /\ df' = df)]_vars

\* the last operation was a view update for a frame of the table whose marker
\* group is whole and holds the selected marker, in which some marker has a
\* NaN or Infinity component and another marker is finite and in range
MixedFrameCase ==
    /\ result \in UpdateOutcomes /\ df # None
    /\ sel.index >= 0 /\ sel.index < Len(df.rows)
    /\ LET cols == ColumnsWith(df.columns, TPrefix)
           selected == ColumnsWith(df.columns, marker_name)
       IN  /\ Len(cols) > 0 /\ Len(cols) % 3 = 0
           /\ Len(selected) >= 3 /\ selected[1] \in Range(cols)
    /\ \E m \in 1..Len(MarkersOf(df, sel.index)) : ~AllFinite(MarkersOf(df, sel.index)[m])
    /\ \E m \in 1..Len(MarkersOf(df, sel.index)) : InVolume(MarkersOf(df, sel.index)[m])

\* C12 as claimed: in a frame where some marker has a NaN or Infinity
\* component and another marker is finite and in range, only the non-finite
\* markers are dropped and the remaining valid markers are drawn
C12_NonFinitePerMarker ==
    MixedFrameCase =>
        /\ result = "drawn"
        /\ scatter_3d = <<GeneralOf(df, sel.index)>>

\* C13 as claimed: the highlighted marker is a position that passes the checks
\* of the general set (finite, within [-1000, 10000] and within the extreme
\* envelope) and that is drawn in the general set too
C13_HighlightPassesChecks ==
    red_marker_3d # <<>> =>
        /\ InVolume(red_marker_3d[1].pts[1])
        /\ scatter_3d # <<>>
        /\ red_marker_3d[1].pts[1] \in Range(scatter_3d[1].pts)

\* C14 as claimed: a pointer position that is exactly the frame number of the
\* frame at index i resolves to index i, for every i
C14_ExactResolvesToItself ==
    ResolvedCase =>
        \A i \in 0..(Len(time_stamps) - 1) :
            sel.x = 10 * time_stamps[i + 1] => sel.index = i

\* C14 as amended: a pointer position that is exactly the frame number of the
\* frame at index i resolves to the lowest index that has this frame number,
\* which is i when no earlier frame has the same number
C14_ExactResolvesToFirst ==
    ResolvedCase =>
        \A i \in 0..(Len(time_stamps) - 1) :
            sel.x = 10 * time_stamps[i + 1] =>
                /\ sel.index >= 0 /\ sel.index <= i
                /\ time_stamps[sel.index + 1] = time_stamps[i + 1]
                /\ \A j \in 0..(sel.index - 1) : time_stamps[j + 1] # time_stamps[i + 1]
                /\ (\A j \in 0..(i - 1) : time_stamps[j + 1] # time_stamps[i + 1])
                      => sel.index = i

C14_Witness ==
    /\ ResolvedCase /\ time_stamps = <<0, 1, 1, 2>> /\ sel.x = 10 /\ sel.index = 1

\* the frame the position x resolves to has a percentage within 0..100
PayloadValid(fs, x) ==
    /\ fs[Nearest(fs, x) + 1] * 100 >= 0
    /\ fs[Nearest(fs, x) + 1] * 100 <= 100 * Len(fs)

\* a pointer event with selection s is handled now: it comes 100 ms or more
\* after the last one that passed the throttle, on a line at a finite position
\* within the frame range
Handled(s) == on_add(s) /\ now - last_hover_time >= 10 /\ InBounds(s)

\* C15: when the connection fails, the request times out or the answer is an
\* HTTP error status, the notification ends with the acknowledgment
\* {status: "error", message: ...} and the pointer event goes on to its view
\* update: the frame is drawn if it validates
C15_FailureDoesNotAbort ==
    [][\A s \in SelectionsAt(NotifyTargets) :
          (Handled(s) /\ use_babylon /\ PayloadValid(time_stamps, s.x)
              /\ endpoint \in {"refused", "timeout", "http_error"})
          => /\ DOMAIN ack' = {"status", "message"}
             /\ ack'.status = "error"
             /\ result' \in UpdateOutcomes
             /\ Validates(df, marker_name, Nearest(time_stamps, s.x)) =>
                   /\ result' = "drawn"
                   /\ scatter_3d' = <<GeneralOf(df, Nearest(time_stamps, s.x))>>]_vars

C15_Witness ==
    /\ endpoint = "timeout" /\ ack = [status |-> "error", message |-> "timeout"]
    /\ result = "drawn" /\ InBounds(sel) /\ sel.index = 1
    /\ scatter_3d = <<GeneralOf(df, 1)>>
    /\ sent # <<>> /\ sent[Len(sent)].t = last_hover_time

\* C16 as claimed: after a load_data that replaces a loaded table no general
\* marker set and no highlighted marker of the recording loaded before is
\* left, neither as the current view state nor on the axes
C16_ReloadDiscardsView ==
    [][(df # None /\ HasFrame(df.columns) /\ result' = "loaded") =>
          (scatter_3d' = <<>> /\ red_marker_3d' = <<>> /\ artists' = <<>>)]_vars

\* the table is one that load_data sanitized
LoadedTable == df # None /\ HasFrame(df.columns)

\* row r of the table is the raw row q with its empty cells replaced by 0, and
\* q has a value in the frame-number column and in every column of the
\* selected marker
FromRawRow(r, q) ==
    \A j \in 1..Len(r) :
        \/ q[j].kind = "num" /\ r[j] = q[j]
        \/ /\ q[j].kind = "nan" /\ r[j] = Num(0)
           /\ csv.columns[j] # Frame
           /\ ~IsSubstr(marker_name, csv.columns[j])

\* C17: a table that load_data sanitized holds no NaN and no +/-Infinity, each
\* of its rows is a raw row that had its frame number and its selected-marker
\* values, and no view update on it, by a pointer event or by a direct call,
\* is rejected by the whole-frame test for non-finite values
C17_LoadedTableFinite ==
    LoadedTable =>
        /\ \A i \in 1..Len(df.rows) : \A j \in 1..Len(df.rows[i]) :
              df.rows[i][j].kind = "num"
        /\ \A i \in 1..Len(df.rows) :
              \E k \in 1..Len(csv.rows) : FromRawRow(df.rows[i], csv.rows[k])
        /\ result # "invalid_frame"

C17_Witness ==
    /\ LoadedTable /\ shown /\ result = "drawn" /\ sel.artist # "None"
    /\ \E k \in 1..Len(csv.rows) : \E j \in 1..Len(csv.rows[k]) : csv.rows[k][j].kind = "inf"
    /\ \E k \in 1..Len(csv.rows) : \E j \in 1..Len(csv.rows[k]) : csv.rows[k][j].kind = "nan"
    /\ Len(df.rows) < Len(csv.rows)

\* C18 as claimed: every pointer event that is handled, with notifications
\* enabled, posts a request for the frame it resolves to, whose percentage
\* (frame number / number of frames * 100) lies in 0..100
C18_PercentageInRange ==
    [][\A s \in SelectionsAt(NotifyTargets) :
          (Handled(s) /\ use_babylon) =>
              LET frame == time_stamps[Nearest(time_stamps, s.x) + 1] IN
              /\ frame * 100 >= 0 /\ frame * 100 <= 100 * Len(time_stamps)
              /\ sent' = Append(sent, [t |-> now, frame |-> frame,
                                       count |-> Len(time_stamps)])]_vars

\* C19: with notifications enabled, a pointer event that is handled posts the
\* request for the frame it resolves to whatever becomes of the view update:
\* also when the update is skipped, and also when the notification itself
\* raises, which ends the event before the view update is begun.  (The
\* percentage is taken to be within 0..100.)
C19_NotifiedWhateverTheView ==
    [][\A s \in SelectionsAt(NotifyTargets) :
          (Handled(s) /\ use_babylon /\ PayloadValid(time_stamps, s.x)) =>
              LET index == Nearest(time_stamps, s.x) IN
              /\ sent' = Append(sent, [t |-> now, frame |-> time_stamps[index + 1],
                                       count |-> Len(time_stamps)])
              /\ result' \in UpdateOutcomes \cup {"notification_raised"}
              /\ result' = "notification_raised" =>
                    UNCHANGED <<fig_3d, artists, scatter_3d, red_marker_3d>>
              /\ (result' # "notification_raised"
                    /\ ~Validates(df, marker_name, index)) =>
                    UNCHANGED <<artists, scatter_3d, red_marker_3d>>]_vars

\* the frame notified last is not the frame shown
C19_Witness ==
    /\ shown /\ result = "no_valid_markers" /\ InBounds(sel)
    /\ sent # <<>> /\ sent[Len(sent)].t = last_hover_time
    /\ sent[Len(sent)].frame = time_stamps[sel.index + 1]
    /\ scatter_3d # <<>> /\ scatter_3d[1].frame # sel.index

\* any two remembered pointer events that passed the throttle are 100 ms or
\* more apart
PassedSpaced ==
    \A i, j \in 1..Len(hist.events) :
        (i < j /\ hist.events[i].passed /\ hist.events[j].passed)
            => hist.events[j].t - hist.events[i].t >= 10

\* a pointer event that passes the throttle starts a new window at its own
\* time, whether or not its selection is then rejected; one that does not pass
\* leaves the window, the view and the requests as they are
WindowAdvanced ==
    \A s \in Selections :
        on_add(s) =>
            IF now - last_hover_time >= 10
            THEN last_hover_time' = now
            ELSE /\ result' = "throttled"
                 /\ UNCHANGED <<last_hover_time, fig_3d, artists, scatter_3d,
                                red_marker_3d, sent>>

\* the last pointer event but one passed the throttle and was rejected, and the
\* last one, on a line at a finite position within the frame range, came less
\* than 100 ms after it
AfterRejectedCase ==
    LET e == hist.events
        n == Len(hist.events)
    IN  /\ shown /\ n >= 2
        /\ e[n - 1].passed /\ ~e[n - 1].inb
        /\ e[n].inb /\ e[n].t - e[n - 1].t < 10

\* C20: the throttle timestamp is set by every pointer event that passes the
\* throttle, before its selection is checked; events that pass are 100 ms or
\* more apart; a valid event that comes less than 100 ms after an event that
\* passed and was rejected is dropped
C20_RejectedOpensWindow ==
    /\ [](PassedSpaced /\ (AfterRejectedCase => result = "throttled"))
    /\ [][WindowAdvanced]_vars

C20_Witness ==
    /\ AfterRejectedCase /\ result = "throttled"
    /\ hist.events[Len(hist.events)].t - hist.events[Len(hist.events) - 1].t = 3
    /\ last_hover_time = hist.events[Len(hist.events) - 1].t
    /\ Validates(df, marker_name, Nearest(time_stamps, sel.x))
    /\ scatter_3d = <<>> /\ sent = <<>>

====
